---- MODULE Spec2Model ----
(***************************************************************************)
(* Model of the set-associative cache simulator of src/cache_sim.cpp:      *)
(* the geometry computed by the constructor, the probe-and-replace         *)
(* algorithm, the statistics counters and the end-of-run report.           *)
(***************************************************************************)
EXTENDS Integers, Sequences, FiniteSets, TLC

\* ---------------------------------------------------------------- bounds
\* Longest trace file read by run() and largest address appearing in it.
MaxAccesses == 3
MaxAddr == 2
\* The same two bounds for the replacement workload (reads of single-set caches).
MaxLRUAccesses == 6
MaxLRUAddr == 4

\* The same two bounds for the geometry workload (larger caches, short traces).
MaxGeomAccesses == 2
MaxGeomAddr == 15

\* The same two bounds for the ageing workload (reads of one four-way set).
MaxAgeAccesses == 7
MaxAgeAddr == 3

\* Instruction counts appearing on trace lines.
Instructions == {1, 2}

\* Cache geometries <<block_size, associativity, capacity>> given to the
\* constructor: one set with a one-bit block offset, two direct-mapped
\* sets, and one two-way set.
Configs == { <<2, 1, 2>>, <<1, 1, 2>>, <<1, 2, 2>> }

\* Single-set geometries of the replacement workload.
LRUConfigs == { <<1, 1, 1>>, <<1, 2, 2>>, <<1, 4, 4>> }

\* Geometries of the geometry workload: three with power-of-two block size
\* and set count (offset and set bits both present), one with block size 3
\* and one with 3 sets.
GeomConfigs == { <<2, 1, 4>>, <<4, 2, 16>>, <<2, 2, 16>>, <<3, 1, 6>>, <<1, 1, 3>> }

\* The four-way set of the ageing workload.
AgeConfigs == { <<1, 4, 4>> }

\* Penalties hard coded in main().
miss_penalty == 30
dirty_wb_penalty == 2

VARIABLES
  block_size, associativity, capacity,   \* cache settings
  set_offset, tag_offset, set_mask,      \* access settings
  tags, dirty, valid, priority,          \* the cache state, one entry per block
  writes_, mem_accesses_, misses_, dirty_wb_, instructions_,  \* statistics
  index, invalid_index,                  \* probe()'s locals after the last probe
  trace,                                 \* lines read so far, with probe()'s result
  pc,                                    \* "run" while reading, "done" after the report
  hits, cycles, miss_rate, ipc           \* values printed by dump_stats()

cfgvars == <<block_size, associativity, capacity, set_offset, tag_offset, set_mask>>
cachevars == <<tags, dirty, valid, priority>>
statvars == <<writes_, mem_accesses_, misses_, dirty_wb_, instructions_>>
reportvars == <<hits, cycles, miss_rate, ipc>>
vars == <<cfgvars, cachevars, statvars, index, invalid_index, trace, pc, reportvars>>

\* ------------------------------------------------------- bit arithmetic
RECURSIVE popcount(_)
popcount(x) == IF x = 0 THEN 0 ELSE (x % 2) + popcount(x \div 2)

RECURSIVE BitAnd(_, _)
BitAnd(x, y) ==
  IF x = 0 \/ y = 0 THEN 0
  ELSE (x % 2) * (y % 2) + 2 * BitAnd(x \div 2, y \div 2)

RECURSIVE ShiftR(_, _)
ShiftR(x, n) == IF n = 0 THEN x ELSE ShiftR(x \div 2, n - 1)

\* ---------------------------------------------------------- constructor
CacheSim(bs, a, c) ==
  LET num_blocks == c \div bs
      block_bits == popcount(bs - 1)
      sets == c \div (bs * a)
      set_bits == popcount(sets - 1)
  IN /\ block_size = bs
     /\ associativity = a
     /\ capacity = c
     /\ tags = [b \in 0..(num_blocks - 1) |-> 0]
     /\ dirty = [b \in 0..(num_blocks - 1) |-> FALSE]
     /\ valid = [b \in 0..(num_blocks - 1) |-> FALSE]
     /\ priority = [b \in 0..(num_blocks - 1) |-> 0]
     /\ set_offset = block_bits
     /\ set_mask = sets - 1
     /\ tag_offset = block_bits + set_bits
     /\ writes_ = 0
     /\ mem_accesses_ = 0
     /\ misses_ = 0
     /\ dirty_wb_ = 0
     /\ instructions_ = 0

\* ----------------------------------------------------- address decoding
get_set(addr) == BitAnd(ShiftR(addr, set_offset), set_mask)

get_tag_block(addr) == ShiftR(addr, set_offset)

get_tag(addr) == ShiftR(addr, tag_offset)

\* ---------------------------------------------------------------- probe
\* The lookup loop of probe(), from position i of the set starting at base.
\* st carries the arrays and the locals hit, index and invalid_index.
RECURSIVE lookup_nohit(_, _, _, _, _)
lookup_nohit(i, base, tag, type, st) ==
  IF i >= associativity THEN st
  ELSE IF ~st.valid[base + i]
    THEN lookup_nohit(i + 1, base, tag, type, [st EXCEPT !.invalid_index = i])
  ELSE IF tag # st.tags[base + i]
    THEN lookup_nohit(i + 1, base, tag, type, st)
  ELSE [st EXCEPT !.index = i,
                  !.dirty = [st.dirty EXCEPT ![base + i] = @ \/ type]]

RECURSIVE lookup_assign(_, _, _, _, _)
lookup_assign(i, base, tag, type, st) ==
  IF i >= associativity THEN st
  ELSE IF ~st.valid[base + i]
    THEN lookup_assign(i + 1, base, tag, type, [st EXCEPT !.invalid_index = i])
  ELSE IF tag # st.tags[base + i]
    THEN lookup_assign(i + 1, base, tag, type, st)
  ELSE [st EXCEPT !.hit = TRUE, !.index = i,
                  !.dirty = [st.dirty EXCEPT ![base + i] = type]]

RECURSIVE lookup_stale(_, _, _, _, _)
lookup_stale(i, base, tag, type, st) ==
  IF i >= associativity THEN st
  ELSE IF tag = st.tags[base + i]
    THEN [st EXCEPT !.hit = TRUE, !.index = i,
                    !.dirty = [st.dirty EXCEPT ![base + i] = @ \/ type]]
  ELSE IF ~st.valid[base + i]
    THEN lookup_stale(i + 1, base, tag, type, [st EXCEPT !.invalid_index = i])
  ELSE lookup_stale(i + 1, base, tag, type, st)

RECURSIVE lookup(_, _, _, _, _)
lookup(i, base, tag, type, st) ==
  IF i >= associativity THEN st
  ELSE IF ~st.valid[base + i]
    THEN lookup(i + 1, base, tag, type, [st EXCEPT !.invalid_index = i])
  ELSE IF tag # st.tags[base + i]
    THEN lookup(i + 1, base, tag, type, st)
  ELSE [st EXCEPT !.hit = TRUE, !.index = i,
                  !.dirty = [st.dirty EXCEPT ![base + i] = @ \/ type]]

\* std::ranges::max_element over the set's priorities: the first largest.
min_element(pri, base) ==
  CHOOSE i \in 0..(associativity - 1) :
    /\ \A j \in 0..(associativity - 1) : pri[base + j] >= pri[base + i]
    /\ \A j \in 0..(i - 1) : pri[base + j] > pri[base + i]

max_element_last(pri, base) ==
  CHOOSE i \in 0..(associativity - 1) :
    /\ \A j \in 0..(associativity - 1) : pri[base + j] <= pri[base + i]
    /\ \A j \in (i + 1)..(associativity - 1) : pri[base + j] < pri[base + i]

max_element(pri, base) ==
  CHOOSE i \in 0..(associativity - 1) :
    /\ \A j \in 0..(associativity - 1) : pri[base + j] <= pri[base + i]
    /\ \A j \in 0..(i - 1) : pri[base + j] < pri[base + i]

\* The miss branch of probe(): take an invalid line, else evict.
replace_invalidate(base, tag, type, st) ==
  LET idx == IF st.invalid_index >= 0 THEN st.invalid_index
             ELSE max_element(st.priority, base)
  IN [st EXCEPT !.index = idx,
                !.valid = [st.valid EXCEPT ![base + idx] = (st.invalid_index >= 0)],
                !.dirty_wb = IF st.invalid_index >= 0 THEN FALSE
                             ELSE st.dirty[base + idx],
                !.tags = [st.tags EXCEPT ![base + idx] = tag],
                !.dirty = [st.dirty EXCEPT ![base + idx] = type]]

replace_late_wb(base, tag, type, st) ==
  LET idx == IF st.invalid_index >= 0 THEN st.invalid_index
             ELSE max_element(st.priority, base)
  IN [st EXCEPT !.index = idx,
                !.valid = IF st.invalid_index >= 0
                          THEN [st.valid EXCEPT ![base + idx] = TRUE]
                          ELSE st.valid,
                !.dirty_wb = IF st.invalid_index >= 0 THEN FALSE ELSE type,
                !.tags = [st.tags EXCEPT ![base + idx] = tag],
                !.dirty = [st.dirty EXCEPT ![base + idx] = type]]

replace_novalid(base, tag, type, st) ==
  LET idx == IF st.invalid_index >= 0 THEN st.invalid_index
             ELSE max_element(st.priority, base)
  IN [st EXCEPT !.index = idx,
                !.dirty_wb = IF st.invalid_index >= 0 THEN FALSE
                             ELSE st.dirty[base + idx],
                !.tags = [st.tags EXCEPT ![base + idx] = tag],
                !.dirty = [st.dirty EXCEPT ![base + idx] = type]]

replace(base, tag, type, st) ==
  LET idx == IF st.invalid_index >= 0 THEN st.invalid_index
             ELSE max_element(st.priority, base)
  IN [st EXCEPT !.index = idx,
                !.valid = IF st.invalid_index >= 0
                          THEN [st.valid EXCEPT ![base + idx] = TRUE]
                          ELSE st.valid,
                !.dirty_wb = IF st.invalid_index >= 0 THEN FALSE
                             ELSE st.dirty[base + idx],
                !.tags = [st.tags EXCEPT ![base + idx] = tag],
                !.dirty = [st.dirty EXCEPT ![base + idx] = type]]

\* std::transform over the set's priorities, in place from position i: the
\* lambda reads local_priority[index] from the array it is writing.
RECURSIVE transform_unguarded(_, _, _, _)
transform_unguarded(pri, base, idx, i) ==
  IF i >= associativity THEN pri
  ELSE LET p == pri[base + i]
       IN transform_unguarded(IF p <= pri[base + idx]
                                THEN [pri EXCEPT ![base + i] = p + 1]
                                ELSE pri,
                              base, idx, i + 1)

RECURSIVE transform_strict(_, _, _, _)
transform_strict(pri, base, idx, i) ==
  IF i >= associativity THEN pri
  ELSE LET p == pri[base + i]
       IN transform_strict(IF p < pri[base + idx] /\ p < associativity
                             THEN [pri EXCEPT ![base + i] = p + 1]
                             ELSE pri,
                           base, idx, i + 1)

RECURSIVE transform(_, _, _, _)
transform(pri, base, idx, i) ==
  IF i >= associativity THEN pri
  ELSE LET p == pri[base + i]
       IN transform(IF p <= pri[base + idx] /\ p < associativity
                      THEN [pri EXCEPT ![base + i] = p + 1]
                      ELSE pri,
                    base, idx, i + 1)

update_priority(pri, base, idx) ==
  [transform(pri, base, idx, 0) EXCEPT ![base + idx] = 0]

probe_nobase(type, address) ==
  LET tag == get_tag(address)
      base == 0
      s0 == [tags |-> tags, dirty |-> dirty, valid |-> valid,
             priority |-> priority, hit |-> FALSE, dirty_wb |-> FALSE,
             index |-> -1, invalid_index |-> -1]
      s1 == lookup(0, base, tag, type, s0)
      s2 == IF ~s1.hit THEN replace(base, tag, type, s1) ELSE s1
  IN [s2 EXCEPT !.priority = update_priority(s2.priority, base, s2.index)]

probe(type, address) ==
  LET set == get_set(address)
      tag == get_tag(address)
      base == set * associativity
      s0 == [tags |-> tags, dirty |-> dirty, valid |-> valid,
             priority |-> priority, hit |-> FALSE, dirty_wb |-> FALSE,
             index |-> -1, invalid_index |-> -1]
      s1 == lookup(0, base, tag, type, s0)
      s2 == IF ~s1.hit THEN replace(base, tag, type, s1) ELSE s1
  IN [s2 EXCEPT !.priority = update_priority(s2.priority, base, s2.index)]

\* ----------------------------------------------------------- statistics
Bit(b) == IF b THEN 1 ELSE 0

update_stats_accumulate(instructions, type, hit, dirty_wb) ==
  /\ mem_accesses_' = mem_accesses_ + 1
  /\ writes_' = writes_ + Bit(type)
  /\ misses_' = misses_ + Bit(~hit)
  /\ instructions_' = instructions_ + instructions
  /\ dirty_wb_' = dirty_wb_ + Bit(dirty_wb)

update_stats_hits(instructions, type, hit, dirty_wb) ==
  /\ mem_accesses_' = mem_accesses_ + 1
  /\ writes_' = writes_ + Bit(type)
  /\ misses_' = misses_ + Bit(hit)
  /\ instructions_' = instructions_ + instructions
  /\ dirty_wb_' = Bit(dirty_wb)

update_stats(instructions, type, hit, dirty_wb) ==
  /\ mem_accesses_' = mem_accesses_ + 1
  /\ writes_' = writes_ + Bit(type)
  /\ misses_' = misses_ + Bit(~hit)
  /\ instructions_' = instructions_ + instructions
  /\ dirty_wb_' = Bit(dirty_wb)

\* ------------------------------------------------------------- run loop
\* One iteration of run(): a line is read, probed and counted.
AccessStep(type, address, instructions) ==
  LET r == probe(type, address)
  IN /\ tags' = r.tags
     /\ dirty' = r.dirty
     /\ valid' = r.valid
     /\ priority' = r.priority
     /\ index' = r.index
     /\ invalid_index' = r.invalid_index
     /\ update_stats(instructions, type, r.hit, r.dirty_wb)
     /\ trace' = Append(trace, [type |-> type, address |-> address,
                                instructions |-> instructions,
                                hit |-> r.hit, dirty_wb |-> r.dirty_wb])
     /\ UNCHANGED <<cfgvars, pc, reportvars>>

Access ==
  /\ pc = "run"
  /\ Len(trace) < MaxAccesses
  /\ \E type \in BOOLEAN, address \in 0..MaxAddr, instructions \in Instructions :
       AccessStep(type, address, instructions)

AccessRead ==
  /\ pc = "run"
  /\ Len(trace) < MaxLRUAccesses
  /\ \E address \in 0..MaxLRUAddr : AccessStep(FALSE, address, 1)

AccessGeom ==
  /\ pc = "run"
  /\ Len(trace) < MaxGeomAccesses
  /\ \E address \in 0..MaxGeomAddr : AccessStep(FALSE, address, 1)

AccessAge ==
  /\ pc = "run"
  /\ Len(trace) < MaxAgeAccesses
  /\ \E address \in 0..MaxAgeAddr : AccessStep(FALSE, address, 1)

\* Odd addresses are written, even addresses are read.
AccessMix ==
  /\ pc = "run"
  /\ Len(trace) < MaxLRUAccesses
  /\ \E address \in 0..MaxLRUAddr : AccessStep(address % 2 = 1, address, 1)

\* ------------------------------------------------------------ the report
\* A quotient of doubles, kept as the pair <<numerator, denominator>>;
\* 0.0 / 0.0 is NaN.
Quotient(n, d) == IF d = 0 /\ n = 0 THEN "nan" ELSE <<n, d>>

dump_stats_accesses ==
  /\ hits' = mem_accesses_ - misses_
  /\ cycles' = miss_penalty * mem_accesses_ + dirty_wb_penalty * dirty_wb_
               + instructions_
  /\ miss_rate' = Quotient(misses_ * 100, mem_accesses_)
  /\ ipc' = Quotient(instructions_, cycles')

dump_stats ==
  /\ hits' = mem_accesses_ - misses_
  /\ cycles' = miss_penalty * misses_ + dirty_wb_penalty * dirty_wb_
               + instructions_
  /\ miss_rate' = Quotient(misses_ * 100, mem_accesses_)
  /\ ipc' = Quotient(instructions_, cycles')

\* End of file: run() returns and the destructor prints the report.
Finish ==
  /\ pc = "run"
  /\ dump_stats
  /\ pc' = "done"
  /\ UNCHANGED <<cfgvars, cachevars, statvars, index, invalid_index, trace>>

\* ------------------------------------------------------- specifications
InitWith(cfgs) ==
  /\ \E cfg \in cfgs : CacheSim(cfg[1], cfg[2], cfg[3])
  /\ index = -1
  /\ invalid_index = -1
  /\ trace = <<>>
  /\ pc = "run"
  /\ hits = 0
  /\ cycles = 0
  /\ miss_rate = "none"
  /\ ipc = "none"

Init == InitWith(Configs)

Next == Access \/ Finish

Spec == Init /\ [][Next]_vars

InitLRU == InitWith(LRUConfigs)

NextLRU == AccessRead \/ Finish

SpecLRU == InitLRU /\ [][NextLRU]_vars

NextMix == AccessMix \/ Finish

SpecMix == InitLRU /\ [][NextMix]_vars

InitAge == InitWith(AgeConfigs)

NextAge == AccessAge \/ Finish

SpecAge == InitAge /\ [][NextAge]_vars

InitGeom == InitWith(GeomConfigs)

NextGeom == AccessGeom \/ Finish

SpecGeom == InitGeom /\ [][NextGeom]_vars

\* ------------------------------------------------------------ vocabulary
Stepped == Len(trace') = Len(trace) + 1

Last == trace[Len(trace)]

LinesOf(s) == { s * associativity + i : i \in 0..(associativity - 1) }

SameBlock(x, y) == get_set(x) = get_set(y) /\ get_tag(x) = get_tag(y)

\* The lines of address x's set that are valid and hold x's tag.
Holding(x) == { l \in LinesOf(get_set(x)) : valid[l] /\ tags[l] = get_tag(x) }

Resident(x) == Holding(x) # {}

Full(s) == \A l \in LinesOf(s) : valid[l]

SetMax(S) == CHOOSE m \in S : \A n \in S : n <= m

\* Positions in the trace of the accesses to the block that line l holds.
UsesOf(l) ==
  { k \in 1..Len(trace) :
      /\ get_set(trace[k].address) = l \div associativity
      /\ get_tag(trace[k].address) = tags[l] }

\* The most recent access (install or hit) to the block that line l holds.
LastUse(l) == SetMax(UsesOf(l))

\* The access that installed the block that line l holds: its latest miss.
InstallOf(l) == SetMax({ k \in UsesOf(l) : ~trace[k].hit })

\* The block of line l was written by its install or by a later hit.
WrittenSinceInstall(l) ==
  \E k \in UsesOf(l) : k >= InstallOf(l) /\ trace[k].type

\* The trace tr probes pairwise distinct blocks that all map to one set.
DistinctSameSet(tr) ==
  \A j, k \in 1..Len(tr) :
    /\ get_set(tr[j].address) = get_set(tr[k].address)
    /\ (j # k => get_tag(tr[j].address) # get_tag(tr[k].address))

\* ---------------------------------------------------------------- claims

\* C1: true LRU replacement: whenever a probe misses in a set that has no
\* invalid line, the evicted line is the one whose most recent access
\* (install or hit) is the oldest among the lines of that set.
C1_TrueLRU ==
  [][ (Stepped /\ ~Last'.hit /\ invalid_index' = -1) =>
        LET s == get_set(Last'.address)
            victim == s * associativity + index'
        IN \A l \in LinesOf(s) : LastUse(victim) <= LastUse(l) ]_vars

\* C2: from an empty cache, probing A+1 pairwise distinct blocks a0..aA of
\* one set, each once: the first A probes are cold fills that evict nothing
\* (every block probed so far stays resident), and the probe of aA evicts
\* a0 and only a0.
C2_Recency ==
  (Len(trace) >= 1 /\ Len(trace) <= associativity + 1 /\ DistinctSameSet(trace)) =>
     /\ \A k \in 1..Len(trace) : ~trace[k].hit /\ ~trace[k].dirty_wb
     /\ Len(trace) <= associativity =>
          /\ invalid_index >= 0
          /\ \A k \in 1..Len(trace) : Resident(trace[k].address)
     /\ Len(trace) = associativity + 1 =>
          /\ invalid_index = -1
          /\ ~Resident(trace[1].address)
          /\ \A k \in 2..Len(trace) : Resident(trace[k].address)

C2_Witness ==
  /\ associativity = 4
  /\ Len(trace) = associativity + 1
  /\ DistinctSameSet(trace)
  /\ ~Resident(trace[1].address)

\* C3: probe returns hit exactly when, immediately before it, some line of
\* the address's set is valid and holds the address's tag, wherever that line
\* sits relative to invalid lines; an invalid line never hits, so the first
\* probe of an empty cache misses even for tag 0.
C3_HitIffResident ==
  [][ Stepped =>
        /\ Last'.hit <=> Resident(Last'.address)
        /\ Len(trace) = 0 => ~Last'.hit ]_vars

\* A hit on a line that sits behind an invalid line of its set.
C3_Witness ==
  /\ Len(trace) >= 2
  /\ Last.hit
  /\ index > 0
  /\ ~valid[get_set(Last.address) * associativity]
  /\ get_tag(trace[1].address) = 0
  /\ ~trace[1].hit

\* C4: a probe of the block probed immediately before (any block offset)
\* hits without a dirty write-back, and the block's dirty flag afterwards is
\* set whenever it was set before or the repeated probe is a write.
C4_RepeatHits ==
  [][ (Stepped /\ Len(trace) >= 1 /\ SameBlock(Last.address, Last'.address)) =>
        /\ Last'.hit
        /\ ~Last'.dirty_wb
        /\ \A l \in Holding(Last.address) :
             (dirty[l] \/ Last'.type) => (valid'[l] /\ dirty'[l]) ]_vars

\* A write followed by a read of another offset of the same block.
C4_Witness ==
  /\ Len(trace) >= 2
  /\ SameBlock(trace[Len(trace) - 1].address, Last.address)
  /\ trace[Len(trace) - 1].address # Last.address
  /\ trace[Len(trace) - 1].type
  /\ ~Last.type
  /\ Last.hit
  /\ \A l \in Holding(Last.address) : dirty[l]

\* C5: probe reports a dirty write-back exactly when it misses in a set with
\* no invalid line and the block it evicts was written since it was installed
\* (by the installing access or by a later hit); never on a hit or on the fill
\* of an invalid line.  In particular, from an empty cache, a write to x
\* followed by A misses on distinct other blocks of x's set reports false on
\* the cold fills and true on the probe that evicts x.
C5_DirtyWriteback ==
  [][ Stepped =>
        LET s == get_set(Last'.address)
            victim == s * associativity + index'
            tr == trace'
        IN /\ Last'.dirty_wb <=>
                (~Last'.hit /\ Full(s) /\ WrittenSinceInstall(victim))
           /\ (Len(tr) <= associativity + 1 /\ tr[1].type /\ DistinctSameSet(tr)) =>
                /\ Len(tr) <= associativity => ~Last'.dirty_wb
                /\ Len(tr) = associativity + 1 => Last'.dirty_wb ]_vars

\* The written block x has just been evicted from a two-way set.
C5_Witness ==
  /\ associativity = 2
  /\ Len(trace) = associativity + 1
  /\ trace[1].type
  /\ DistinctSameSet(trace)
  /\ ~trace[2].dirty_wb
  /\ Last.dirty_wb
  /\ ~Resident(trace[1].address)

\* C6: no two valid lines of one set hold the same tag, so the lookup's first
\* tag match is the only match.
C6_UniqueTags ==
  \A s \in 0..set_mask : \A l1, l2 \in LinesOf(s) :
    (l1 # l2 /\ valid[l1] /\ valid[l2]) => tags[l1] # tags[l2]

\* A hit in a two-way set whose lines are both valid.
C6_Witness ==
  /\ associativity = 2
  /\ Len(trace) >= 3
  /\ Full(get_set(Last.address))
  /\ Last.hit

\* C7: validity is monotone: a valid line stays valid in every later state,
\* and the only change of a valid flag is false -> true on the line a cold
\* fill (a miss that found an invalid line) installs into.
C7_ValidMonotone ==
  [][ \A l \in DOMAIN valid :
        /\ valid[l] => valid'[l]
        /\ valid'[l] # valid[l] =>
             /\ Stepped
             /\ ~Last'.hit
             /\ invalid_index' >= 0
             /\ l = get_set(Last'.address) * associativity + invalid_index' ]_vars

\* A line that was evicted and refilled is still valid.
C7_Witness ==
  /\ Len(trace) >= 2
  /\ ~Last.hit
  /\ invalid_index = -1
  /\ valid[get_set(Last.address) * associativity + index]
  /\ tags[get_set(Last.address) * associativity + index] = get_tag(Last.address)

RECURSIVE SumInstructions(_)
SumInstructions(tr) ==
  IF tr = <<>> THEN 0 ELSE Head(tr).instructions + SumInstructions(Tail(tr))

\* C8: after n accesses, total_accesses = n, write_accesses = the number of
\* writes among them, misses = the number of them whose probe returned no
\* hit, total_instructions = the sum of their instruction counts; hence
\* 0 <= misses <= total_accesses and 0 <= write_accesses <= total_accesses.
C8_Counters ==
  /\ mem_accesses_ = Len(trace)
  /\ writes_ = Cardinality({ k \in 1..Len(trace) : trace[k].type })
  /\ misses_ = Cardinality({ k \in 1..Len(trace) : ~trace[k].hit })
  /\ instructions_ = SumInstructions(trace)
  /\ 0 <= misses_ /\ misses_ <= mem_accesses_
  /\ 0 <= writes_ /\ writes_ <= mem_accesses_

\* Three accesses: reads and writes, a hit and misses, unequal counts.
C8_Witness ==
  /\ mem_accesses_ = 3
  /\ writes_ = 1
  /\ misses_ = 2
  /\ instructions_ = 5

\* C9: the dirty write-back statistic is overwritten, not accumulated: after
\* a non-empty sequence of accesses it is the write-back outcome (0 or 1) of
\* the final access only, and 0 when there was no access.
C9_LastWritebackOnly ==
  dirty_wb_ = IF Len(trace) = 0 THEN 0 ELSE Bit(Last.dirty_wb)

\* An earlier access evicted a dirty line, the final one did not.
C9_Witness ==
  /\ Len(trace) >= 2
  /\ \E k \in 1..(Len(trace) - 1) : trace[k].dirty_wb
  /\ ~Last.dirty_wb
  /\ dirty_wb_ = 0

\* C10: the report computes hits = total_accesses - misses and cycles =
\* miss_penalty * misses + dirty_wb_penalty * last flag + total_instructions
\* over the final counters; misses = 3, flag = 0, total_instructions = 4 and
\* miss_penalty = 30 give 94 cycles.
C10_Report ==
  pc = "done" =>
    /\ hits = mem_accesses_ - misses_
    /\ cycles = miss_penalty * misses_ + dirty_wb_penalty * dirty_wb_ + instructions_
    /\ (misses_ = 3 /\ dirty_wb_ = 0 /\ instructions_ = 4 /\ miss_penalty = 30) =>
         cycles = 94

C10_Witness ==
  /\ pc = "done"
  /\ misses_ = 3
  /\ dirty_wb_ = 0
  /\ instructions_ = 4
  /\ cycles = 94

\* ---------------------------------------------------- geometry vocabulary
RECURSIVE BitOr(_, _)
BitOr(x, y) ==
  IF x = 0 THEN y
  ELSE IF y = 0 THEN x
  ELSE (IF x % 2 = 1 \/ y % 2 = 1 THEN 1 ELSE 0) + 2 * BitOr(x \div 2, y \div 2)

RECURSIVE ShiftL(_, _)
ShiftL(x, n) == IF n = 0 THEN x ELSE ShiftL(2 * x, n - 1)

IsPow2(x) == x >= 1 /\ \E k \in 0..x : ShiftL(1, k) = x

Log2(x) == CHOOSE k \in 0..x : ShiftL(1, k) = x

set_count == capacity \div (block_size * associativity)

\* Block size and set count are exact powers of two that divide the capacity.
ValidGeometry ==
  /\ IsPow2(block_size)
  /\ IsPow2(set_count)
  /\ set_count * block_size * associativity = capacity

\* C11: address decomposition is lossless for every valid (power-of-two)
\* configuration and every address: with offset_bits = log2(block_size) and
\* set_bits = log2(set_count), (tag << (offset_bits + set_bits)) |
\* (set_index << offset_bits) | (address & (block_size - 1)) = address, and
\* 0 <= set_index < set_count.
C11_Lossless ==
  ValidGeometry =>
    \A address \in 0..MaxGeomAddr :
      LET offset_bits == Log2(block_size)
          set_bits == Log2(set_count)
      IN /\ BitOr(BitOr(ShiftL(get_tag(address), offset_bits + set_bits),
                        ShiftL(get_set(address), offset_bits)),
                  BitAnd(address, block_size - 1)) = address
         /\ 0 <= get_set(address)
         /\ get_set(address) < set_count

\* A probed address whose tag, set index and block offset are all non-zero.
C11_Witness ==
  /\ ValidGeometry
  /\ Len(trace) >= 1
  /\ get_tag(Last.address) > 0
  /\ get_set(Last.address) > 0
  /\ BitAnd(Last.address, block_size - 1) > 0
  /\ Last.address <= MaxGeomAddr

\* C12: constructing a session whose block size or set count is not an exact
\* power of two fails: no cache state is created and no access is ever probed
\* under such a configuration.
C12_ConfigurationError ==
  (~IsPow2(block_size) \/ ~IsPow2(set_count)) =>
     /\ DOMAIN tags = {}
     /\ DOMAIN valid = {}
     /\ mem_accesses_ = 0
     /\ trace = <<>>

\* C13: when the run ends with no access (empty trace) or with zero cycles,
\* the report yields an explicit 'no data' outcome instead of evaluating
\* misses / total_accesses or total_instructions / cycles with a zero divisor.
C13_NoDataReport ==
  (pc = "done" /\ (mem_accesses_ = 0 \/ cycles = 0)) =>
     /\ miss_rate = "no data"
     /\ ipc = "no data"

ValidIn(v, s) == { l \in LinesOf(s) : v[l] }

\* C14: on a miss in a set that contains an invalid line, the new block is
\* installed in an invalid line: that line becomes valid with the probed tag
\* and dirty = (kind is write), no valid line's tag, valid or dirty flag
\* changes, no dirty write-back is reported, and the number of valid lines of
\* the set grows by exactly one.
C14_ColdFill ==
  [][ (Stepped /\ ~Last'.hit /\ ~Full(get_set(Last'.address))) =>
        LET s == get_set(Last'.address)
        IN /\ \E l \in LinesOf(s) :
                /\ ~valid[l] /\ valid'[l]
                /\ tags'[l] = get_tag(Last'.address)
                /\ dirty'[l] = Last'.type
           /\ \A m \in LinesOf(s) :
                valid[m] => /\ valid'[m]
                            /\ tags'[m] = tags[m]
                            /\ dirty'[m] = dirty[m]
           /\ ~Last'.dirty_wb
           /\ Cardinality(ValidIn(valid', s)) = Cardinality(ValidIn(valid, s)) + 1 ]_vars

\* The second cold fill of a two-way set, a read next to a dirty line.
C14_Witness ==
  /\ associativity = 2
  /\ Len(trace) = 2
  /\ trace[1].type
  /\ ~Last.type
  /\ ~Last.hit
  /\ invalid_index = 0
  /\ valid[0] /\ ~dirty[0]
  /\ valid[1] /\ dirty[1]

\* The lowest-index line among those holding the largest priority of set s.
FirstOldest(s) ==
  CHOOSE l \in LinesOf(s) :
    /\ \A m \in LinesOf(s) : priority[m] <= priority[l]
    /\ \A m \in LinesOf(s) : (priority[m] = priority[l]) => l <= m

\* C15: on a miss in a set with no invalid line, the replaced line is the
\* lowest-index line among those holding the maximum priority of the set; its
\* tag becomes the probed tag and its dirty flag becomes (kind is write), and
\* no other line's tag, valid or dirty flag changes.
C15_Eviction ==
  [][ (Stepped /\ ~Last'.hit /\ Full(get_set(Last'.address))) =>
        LET s == get_set(Last'.address)
            v == FirstOldest(s)
        IN /\ v = s * associativity + index'
           /\ tags'[v] = get_tag(Last'.address)
           /\ dirty'[v] = Last'.type
           /\ valid' = valid
           /\ \A m \in DOMAIN tags :
                m # v => tags'[m] = tags[m] /\ dirty'[m] = dirty[m] ]_vars

\* Accesses 0, 1, 2, 2, 3 leave lines 2 and 3 of a four-way set tied at the
\* largest priority; the miss on 4 has replaced line 2 and kept line 3.
C15_Witness ==
  /\ associativity = 4
  /\ [k \in 1..Len(trace) |-> trace[k].address] = <<0, 1, 2, 2, 3, 4>>
  /\ ~Last.hit
  /\ Last.dirty_wb
  /\ index = 2
  /\ tags[2] = 4 /\ ~dirty[2]
  /\ tags[3] = 0

\* C16: priority update of every probe: with p0 the touched line's priority
\* before the update, each line of the set whose priority p before the update
\* satisfies p <= p0 and p < associativity ends with p + 1, every other
\* non-touched line keeps its priority, and the touched line ends with 0,
\* whatever the lines' positions relative to the touched line.
C16_PriorityUpdate ==
  [][ Stepped =>
        LET s == get_set(Last'.address)
            t == s * associativity + index'
            p0 == priority[t]
        IN \A l \in LinesOf(s) :
             priority'[l] =
               IF l = t THEN 0
               ELSE IF priority[l] <= p0 /\ priority[l] < associativity
                 THEN priority[l] + 1
               ELSE priority[l] ]_vars

\* C17: after each completed probe every line's priority lies in
\* 0 .. associativity - 1.
C17_PriorityBelowAssociativity ==
  \A l \in DOMAIN priority : 0 <= priority[l] /\ priority[l] <= associativity - 1

\* C18: every line's priority p satisfies 0 <= p <= associativity: the update
\* never increments a priority that already equals associativity.
C18_PriorityAtMostAssociativity ==
  \A l \in DOMAIN priority : 0 <= priority[l] /\ priority[l] <= associativity

\* After reads of 0, 1, 1, 2, 2, 1 line 3 of a four-way set holds priority 4
\* and line 0 priority 3; the fill of line 0 by the read of 3 compares line 3
\* against 4 and leaves it at 4.
C18_Witness ==
  /\ associativity = 4
  /\ [k \in 1..Len(trace) |-> trace[k].address] = <<0, 1, 1, 2, 2, 1, 3>>
  /\ index = 0
  /\ priority[3] = associativity

\* C19: a probe of an address that maps to set s leaves the tag, valid, dirty
\* and priority of every line of every other set unchanged; when the probe is
\* a hit it changes no tag and no valid flag in set s either, and no dirty
\* flag other than the hit line's.
C19_Frame ==
  [][ Stepped =>
        LET s == get_set(Last'.address)
        IN /\ \A l \in DOMAIN tags :
                l \notin LinesOf(s) =>
                  /\ tags'[l] = tags[l]
                  /\ valid'[l] = valid[l]
                  /\ dirty'[l] = dirty[l]
                  /\ priority'[l] = priority[l]
           /\ Last'.hit =>
                /\ tags' = tags
                /\ valid' = valid
                /\ \A l \in DOMAIN dirty :
                     l # s * associativity + index' => dirty'[l] = dirty[l] ]_vars

\* A write hit in set 1 of a two-set cache while set 0 holds a clean block.
C19_Witness ==
  /\ set_mask = 1
  /\ Len(trace) = 3
  /\ get_set(Last.address) = 1
  /\ Last.hit /\ Last.type
  /\ get_set(trace[1].address) = 0
  /\ valid[0] /\ ~dirty[0] /\ priority[0] = 0
  /\ valid[1] /\ dirty[1]

\* The accesses of the trace that were directed at set s.
ProbesOf(s) == { k \in 1..Len(trace) : get_set(trace[k].address) = s }

\* C20: every set that has been probed at least once has exactly one line with
\* priority 0; that line is valid and holds the tag of the most recent probe
\* directed at the set, and all other lines of the set have priority >= 1.
C20_UniqueMRU ==
  \A s \in 0..set_mask :
    ProbesOf(s) # {} =>
      LET mru == { l \in LinesOf(s) : priority[l] = 0 }
      IN /\ Cardinality(mru) = 1
         /\ \A l \in mru :
              /\ valid[l]
              /\ tags[l] = get_tag(trace[SetMax(ProbesOf(s))].address)
         /\ \A l \in LinesOf(s) \ mru : priority[l] >= 1

\* A hit on the older line of a full two-way set made it the line of priority 0.
C20_Witness ==
  /\ associativity = 2
  /\ Len(trace) = 3
  /\ Full(0)
  /\ Last.hit
  /\ index = 1
  /\ priority[1] = 0
  /\ priority[0] >= 1

====
